---- MODULE Spec2Model ----
(***************************************************************************)
(* Connection lifecycle of the Discord Rich Presence plugin.               *)
(*                                                                         *)
(* DiscordClient (src/src/services/discord-client.ts) owns the transport   *)
(* handle `rpc`, the flag `connected` and the interval handle              *)
(* `updateInterval`.  ObsidianDiscordRPC (src/unnamed/part_005) calls it   *)
(* from toggleConnection, the reconnect command and the ready callback;    *)
(* PresenceManager.updatePresence (src/unnamed/part_001) sends payloads.   *)
(*                                                                         *)
(* JavaScript runs every handler to its next `await`; each action below is *)
(* one such run.  The transport (the discord-rpc library) is the           *)
(* environment: it emits `ready` and `disconnected` and settles the        *)
(* promises of login, clearActivity, destroy and setActivity.              *)
(*                                                                         *)
(* PrivacyManager (src/src/utils/privacy-manager.ts), TemplateProcessor    *)
(* (src/src/utils/template-processor.ts) and PresenceManager.createActivity *)
(* (src/unnamed/part_000, part_001) are pure: they are operators, and      *)
(* PureSpec calls each of them on its own over bounded sets of arguments.  *)
(***************************************************************************)
EXTENDS Naturals, FiniteSets, Sequences, TLC

\* Number of transport sessions (new DiscordRPC.Client) one run may create.
MaxSessions == 2
\* Number of disconnect() invocations that may be suspended at the same time.
MaxDisc == 1

VARIABLES
    rpc,            \* DiscordClient.rpc: 0 is null, else the session id
    connected,      \* DiscordClient.connected
    updateInterval, \* DiscordClient.updateInterval: FALSE is null, TRUE a handle
    timers,         \* number of intervals created by setInterval and not cleared
    sess,           \* the transport sessions created so far
    clearing,       \* disconnect() invocations awaiting rpc.clearActivity()
    destroying,     \* disconnect() invocations awaiting rpc.destroy()
    savingReady,    \* some onDiscordReady invocation awaits saveSettings()
    savingReconnect,\* reconnect commands between disconnectDiscord and connectDiscord
    enabled,        \* settings.enabled
    loaded,         \* the plugin is loaded: its commands and listeners are registered
    last,           \* the handler that ran last, what it returned, what it sent
    quiet,          \* a disconnected signal was handled while Ready, no ready since
    discMid,        \* disconnect() was requested during a handshake, no connect() since
    call,           \* a call of a pure method under examination: its name and arguments
    returned,       \* what that call returned: <<>> before it ran, <<value>> after
    settingsOf,     \* the settings object the plugin, the PresenceManager and its
                    \* PrivacyManager each hold a reference to
    savingSettings, \* updateSettings() awaits saveSettings()
    curFile,        \* ObsidianDiscordRPC.currentFile
    startTime,      \* PresenceManager.startTime
    sessionStartTime,\* PresenceManager.sessionStartTime
    now,            \* what Date.now() returns
    timeouts        \* callbacks of setTimeout(..., 100) scheduled by layout-change

vars == <<rpc, connected, updateInterval, timers, sess, clearing, destroying,
          savingReady, savingReconnect, enabled, loaded, last, quiet, discMid,
          call, returned, settingsOf, savingSettings, curFile, startTime,
          sessionStartTime, now, timeouts>>

\* The fields of the connection lifecycle.
lifecycle == <<rpc, connected, updateInterval, timers, sess, clearing, destroying,
               savingReady, savingReconnect, enabled, loaded, last, quiet, discMid>>

\* The call under examination and its result.
examined == <<call, returned>>

\* The references to the settings object, and the updateSettings() in flight.
shared == <<settingsOf, savingSettings>>

\* The current file, the two start times, the clock and the pending timeouts.
host == <<curFile, startTime, sessionStartTime, now, timeouts>>

\* What the handlers of the connection lifecycle leave alone.
aside == <<examined, shared, host>>

client == <<rpc, connected, updateInterval, timers>>

SessIds == 1..MaxSessions

\* No pure method is under examination.
NoCall == [op |-> "none"]

\* Who called disconnect(): disconnectDiscord() from toggleConnection, the
\* reconnect command, or onunload().
Callers == {"toggle", "reconnect", "unload"}

Unused == [st |-> "unused", login |-> "none", destroyed |-> FALSE]

\* The id the next `new DiscordRPC.Client` gets.
NewId == Cardinality({i \in SessIds : sess[i].st # "unused"}) + 1

\* A connect() is suspended at `await this.rpc.login(...)`.
ConnectInFlight == \E i \in SessIds : sess[i].login = "pending"

\* Every handshake begun has ended: login() settled and, where it succeeded,
\* 'ready' was delivered.
ConnectsSettled == \A i \in SessIds : sess[i].login # "pending" /\ sess[i].st # "handshake"

\* disconnect() invocations that have not returned, and reconnects not finished.
DiscInFlight ==
    clearing["toggle"] + clearing["reconnect"] + clearing["unload"]
      + destroying["toggle"] + destroying["reconnect"] + destroying["unload"]
      + savingReconnect

\* What a handler run leaves for the observer: its name, the value it returned
\* ("pending" when it suspended at an await), the calls it made on the
\* transport and on its callbacks, and whether it caught an error.
Event(op, ret, calls, err) == [op |-> op, ret |-> ret, calls |-> calls, err |-> err]

Sends(e) == {c \in e.calls : c[1] = "setActivity"}

\* The settings objects: the one onload() builds from loadData(), and one
\* more that a caller of updateSettings() may pass instead.
SettingsObjects == {"loaded", "passed"}

\* The plugin, the PresenceManager and its PrivacyManager all hold obj.
AllHold(obj) == [plugin |-> obj, presence |-> obj, privacy |-> obj]

\* this.currentFile when no file is open, and the files (TFile objects, compared
\* by identity) the host reports.
NoFile == "null"
HostFiles == {"A.md"}

\* The fields outside the connection lifecycle once onload() has built the
\* PresenceManager, with `file` the current file: both start times are the
\* Date.now() of the construction.
AtLoad(file) ==
    /\ settingsOf = AllHold("loaded")
    /\ savingSettings = FALSE
    /\ curFile = file
    /\ now = 0
    /\ startTime = now
    /\ sessionStartTime = now
    /\ timeouts = 0

(***************************************************************************)
(* DiscordClient                                                           *)
(***************************************************************************)

isConnected == connected

\* clearInterval(this.updateInterval); this.updateInterval = null, when set.
ClearUpdateInterval ==
    /\ timers' = IF updateInterval THEN timers - 1 ELSE timers
    /\ updateInterval' = FALSE

\* connect() without its first line: a session is created even when connected.
Connect_NoEarlyReturn ==
    /\ NewId \in SessIds
    /\ rpc' = NewId
    /\ sess' = [sess EXCEPT ![NewId] =
                  [st |-> "handshake", login |-> "pending", destroyed |-> FALSE]]
    /\ last' = Event("connect", "pending", {<<"login", NewId>>}, "none")
    /\ UNCHANGED <<connected, updateInterval, timers>>

\* connect() up to `await this.rpc.login(...)`.
Connect ==
    /\ IF connected
         THEN /\ UNCHANGED <<rpc, sess>>
              /\ last' = Event("connect", "true", {}, "none")
         ELSE /\ NewId \in SessIds
              /\ rpc' = NewId
              /\ sess' = [sess EXCEPT ![NewId] =
                            [st |-> "handshake", login |-> "pending", destroyed |-> FALSE]]
              /\ last' = Event("connect", "pending", {<<"login", NewId>>}, "none")
    /\ UNCHANGED <<connected, updateInterval, timers>>

\* A 'ready' handler that starts no interval.
ReadyHandler_NoInterval ==
    /\ connected' = TRUE
    /\ last' = Event("ready", "void", {<<"onReadyCallback", 0>>}, "none")
    /\ UNCHANGED <<rpc, updateInterval, timers>>

\* The 'ready' handler registered by connect(): the interval is created
\* without looking at this.updateInterval.
ReadyHandler ==
    /\ connected' = TRUE
    /\ updateInterval' = TRUE
    /\ timers' = timers + 1
    /\ last' = Event("ready", "void", {<<"onReadyCallback", 0>>}, "none")
    /\ UNCHANGED rpc

\* A 'disconnected' handler that logs in again on the session it has.
DisconnectedHandler_Relogin ==
    /\ connected' = FALSE
    /\ ClearUpdateInterval
    /\ last' = Event("disconnected", "void",
                     {<<"onDisconnectedCallback", 0>>, <<"login", rpc>>}, "none")
    /\ UNCHANGED rpc

\* The 'disconnected' handler registered by connect().
DisconnectedHandler ==
    /\ connected' = FALSE
    /\ ClearUpdateInterval
    /\ last' = Event("disconnected", "void", {<<"onDisconnectedCallback", 0>>}, "none")
    /\ UNCHANGED rpc

\* connect() that makes the client Ready itself when login() has resolved.
ConnectResume_SetsConnected ==
    /\ connected' = TRUE
    /\ last' = Event("connectReturn", "true", {}, "none")
    /\ UNCHANGED <<rpc, updateInterval, timers>>

\* connect() after login() resolved: return true.
ConnectResume ==
    /\ last' = Event("connectReturn", "true", {}, "none")
    /\ UNCHANGED client

\* The catch block of connect() without `this.connected = false`.
ConnectCatch_KeepsConnected ==
    /\ last' = Event("connectReturn", "false", {}, "caught")
    /\ UNCHANGED client

\* The catch block of connect(): return false.
ConnectCatch ==
    /\ connected' = FALSE
    /\ last' = Event("connectReturn", "false", {}, "caught")
    /\ UNCHANGED <<rpc, updateInterval, timers>>

\* disconnect() whose guard tests only `!this.rpc`.
Disconnect_RpcOnly(c) ==
    IF rpc = 0
      THEN /\ UNCHANGED <<client, clearing>>
           /\ last' = Event("disconnect", "void", {}, "none")
      ELSE /\ DiscInFlight < MaxDisc
           /\ ClearUpdateInterval
           /\ clearing' = [clearing EXCEPT ![c] = @ + 1]
           /\ last' = Event("disconnect", "pending", {<<"clearActivity", rpc>>}, "none")
           /\ UNCHANGED <<rpc, connected>>

\* disconnect() up to `await this.rpc.clearActivity()`.
Disconnect(c) ==
    IF ~connected \/ rpc = 0
      THEN /\ UNCHANGED <<client, clearing>>
           /\ last' = Event("disconnect", "void", {}, "none")
      ELSE /\ DiscInFlight < MaxDisc
           /\ ClearUpdateInterval
           /\ clearing' = [clearing EXCEPT ![c] = @ + 1]
           /\ last' = Event("disconnect", "pending", {<<"clearActivity", rpc>>}, "none")
           /\ UNCHANGED <<rpc, connected>>

\* disconnect() after clearActivity() settled: `await this.rpc.destroy()`, or
\* the catch block when clearActivity() rejected or this.rpc is null by now.
\* The transport remembers a destroy() that reaches it during the handshake.
DisconnectAfterClear(c, ok) ==
    /\ clearing' = [clearing EXCEPT ![c] = @ - 1]
    /\ IF ok /\ rpc # 0
         THEN /\ sess' = [sess EXCEPT ![rpc].destroyed = (sess[rpc].st = "handshake")]
              /\ destroying' = [destroying EXCEPT ![c] = @ + 1]
              /\ last' = Event("disconnectStep", "pending", {<<"destroy", rpc>>}, "none")
         ELSE /\ UNCHANGED <<sess, destroying>>
              /\ last' = Event("disconnectReturn", "void", {}, "caught")
    /\ UNCHANGED client

\* disconnect() after destroy() settled: the last two assignments of the try
\* block, or the catch block.
DisconnectAfterDestroy(c, ok) ==
    /\ destroying' = [destroying EXCEPT ![c] = @ - 1]
    /\ IF ok
         THEN /\ rpc' = 0
              /\ connected' = FALSE
              /\ last' = Event("disconnectReturn", "void", {}, "none")
         ELSE /\ UNCHANGED <<rpc, connected>>
              /\ last' = Event("disconnectReturn", "void", {}, "caught")
    /\ UNCHANGED <<updateInterval, timers>>

\* setActivity() whose guard tests only `!this.rpc`.
SetActivity_RpcOnly(op, ok) ==
    /\ IF rpc = 0
         THEN last' = Event(op, "void", {}, "none")
         ELSE last' = Event(op, "void", {<<"setActivity", rpc>>},
                            IF ok THEN "none" ELSE "caught")
    /\ UNCHANGED client

\* setActivity() that gives the connection up when the transmission fails.
SetActivity_DropsOnFailure(op, ok) ==
    /\ IF ~connected \/ rpc = 0
         THEN last' = Event(op, "void", {}, "none")
         ELSE last' = Event(op, "void", {<<"setActivity", rpc>>},
                            IF ok THEN "none" ELSE "caught")
    /\ connected' = (connected /\ (rpc = 0 \/ ok))
    /\ UNCHANGED <<rpc, updateInterval, timers>>

\* setActivity(activity): the guard, then the call on the transport; `ok` is
\* whether the transport accepts it, a rejection is caught and logged.
SetActivity(op, ok) ==
    /\ IF ~connected \/ rpc = 0
         THEN last' = Event(op, "void", {}, "none")
         ELSE last' = Event(op, "void", {<<"setActivity", rpc>>},
                            IF ok THEN "none" ELSE "caught")
    /\ UNCHANGED client

(***************************************************************************)
(* PresenceManager and ObsidianDiscordRPC                                  *)
(***************************************************************************)

\* PresenceManager.updatePresence(currentFile).
UpdatePresence(op, ok) ==
    IF ~isConnected
      THEN /\ last' = Event(op, "void", {}, "none")
           /\ UNCHANGED client
      ELSE SetActivity(op, ok)

\* onDiscordReady() up to `await this.saveSettings()`.  What follows the save
\* writes no field and reads the state it finds, so invocations suspended
\* together are kept as one.
OnDiscordReady ==
    /\ enabled' = TRUE
    /\ savingReady' = TRUE

\* connectDiscord() up to `await this.discordClient.connect()`.
ConnectDiscord ==
    /\ Connect
    /\ discMid' = FALSE
    /\ UNCHANGED <<clearing, destroying, savingReady, savingReconnect, enabled,
                   loaded, quiet>>

\* What runs once disconnect() has returned to caller c: disconnectDiscord()
\* turns settings.enabled off, the reconnect command then saves and goes on to
\* connectDiscord(); onunload() does not wait for disconnect().
AfterDisconnect(c) ==
    /\ enabled' = IF c = "unload" THEN enabled ELSE FALSE
    /\ savingReconnect' = IF c = "reconnect" THEN savingReconnect + 1 ELSE savingReconnect

\* disconnect() called by c, up to the first await that suspends it.
DisconnectBy(c) ==
    /\ Disconnect(c)
    /\ discMid' = (discMid \/ ConnectInFlight)
    /\ IF ~connected \/ rpc = 0
         THEN AfterDisconnect(c)
         ELSE UNCHANGED <<enabled, savingReconnect>>
    /\ UNCHANGED <<sess, destroying, savingReady, quiet>>

(***************************************************************************)
(* The handlers, one action per run                                        *)
(***************************************************************************)

\* toggleConnection(): the status-bar click and the toggle command.
ToggleConnection ==
    /\ loaded
    /\ IF isConnected
         THEN DisconnectBy("toggle") /\ UNCHANGED loaded
         ELSE ConnectDiscord
    /\ UNCHANGED aside

\* The reconnect command up to its first suspension inside disconnectDiscord().
ReconnectCommand ==
    /\ loaded
    /\ DiscInFlight < MaxDisc
    /\ DisconnectBy("reconnect")
    /\ UNCHANGED loaded
    /\ UNCHANGED aside

\* The reconnect command after disconnectDiscord() returned: connectDiscord().
ReconnectResume ==
    /\ savingReconnect > 0
    /\ Connect
    /\ savingReconnect' = savingReconnect - 1
    /\ discMid' = FALSE
    /\ UNCHANGED <<clearing, destroying, savingReady, enabled, loaded, quiet>>
    /\ UNCHANGED aside

\* onunload(): this.discordClient.disconnect(), not awaited; the host drops
\* the plugin's commands, listeners and status-bar item.
Onunload ==
    /\ loaded
    /\ loaded' = FALSE
    /\ DisconnectBy("unload")
    /\ UNCHANGED aside

\* The transport of session i emits 'ready'.
Ready(i) ==
    /\ sess[i].st = "handshake"
    /\ ~sess[i].destroyed
    /\ sess' = [sess EXCEPT ![i].st = "open"]
    /\ ReadyHandler
    /\ OnDiscordReady
    /\ quiet' = FALSE
    /\ UNCHANGED <<clearing, destroying, savingReconnect, loaded, discMid>>
    /\ UNCHANGED aside

\* The transport of session i emits 'disconnected'; onDiscordDisconnected()
\* only redraws the status bar.
Disconnected(i) ==
    /\ sess[i].st = "open"
    /\ sess' = [sess EXCEPT ![i].st = "closed"]
    /\ DisconnectedHandler
    /\ quiet' = (quiet \/ connected)
    /\ UNCHANGED <<clearing, destroying, savingReady, savingReconnect, enabled,
                   loaded, discMid>>
    /\ UNCHANGED aside

\* login() of session i resolves: connect() returns true, connectDiscord()
\* redraws the status bar.
LoginResolved(i) ==
    /\ sess[i].login = "pending"
    /\ ~(sess[i].st = "handshake" /\ sess[i].destroyed)
    /\ sess' = [sess EXCEPT ![i].login = "resolved"]
    /\ ConnectResume
    /\ UNCHANGED <<clearing, destroying, savingReady, savingReconnect, enabled,
                   loaded, quiet, discMid>>
    /\ UNCHANGED aside

\* login() of session i rejects: the catch block of connect() returns false
\* and connectDiscord() turns settings.enabled off.
LoginRejected(i) ==
    /\ sess[i].login = "pending"
    /\ sess[i].st = "handshake"
    /\ sess' = [sess EXCEPT ![i] = [st |-> "failed", login |-> "rejected",
                                     destroyed |-> FALSE]]
    /\ ConnectCatch
    /\ enabled' = FALSE
    /\ UNCHANGED <<clearing, destroying, savingReady, savingReconnect, loaded,
                   quiet, discMid>>
    /\ UNCHANGED aside

\* clearActivity() of a suspended disconnect() settles.
ClearActivitySettled(c, ok) ==
    /\ clearing[c] > 0
    /\ DisconnectAfterClear(c, ok)
    /\ IF ok /\ rpc # 0
         THEN UNCHANGED <<enabled, savingReconnect>>
         ELSE AfterDisconnect(c)
    /\ UNCHANGED <<savingReady, loaded, quiet, discMid>>
    /\ UNCHANGED aside

\* destroy() of a suspended disconnect() settles.
DestroySettled(c, ok) ==
    /\ destroying[c] > 0
    /\ DisconnectAfterDestroy(c, ok)
    /\ AfterDisconnect(c)
    /\ UNCHANGED <<sess, clearing, savingReady, loaded, quiet, discMid>>
    /\ UNCHANGED aside

\* An interval created by the ready handler fires: onReadyCallback().  A
\* tick waits for the save of the previous refresh.
Tick ==
    /\ timers > 0
    /\ ~savingReady
    /\ OnDiscordReady
    /\ last' = Event("tick", "void", {<<"onReadyCallback", 0>>}, "none")
    /\ UNCHANGED <<client, sess, clearing, destroying, savingReconnect, loaded,
                   quiet, discMid>>
    /\ UNCHANGED aside

\* onDiscordReady() after saveSettings(): updateStatusBar(), updatePresence().
OnDiscordReadyResume(ok) ==
    /\ savingReady
    /\ savingReady' = FALSE
    /\ UpdatePresence("onDiscordReady", ok)
    /\ UNCHANGED <<sess, clearing, destroying, savingReconnect, enabled, loaded,
                   quiet, discMid>>
    /\ UNCHANGED aside

\* The vault renames the current file: updatePresence().
Rename(ok) ==
    /\ loaded
    /\ curFile # NoFile
    /\ UpdatePresence("rename", ok)
    /\ UNCHANGED <<sess, clearing, destroying, savingReady, savingReconnect,
                   enabled, loaded, quiet, discMid>>
    /\ UNCHANGED aside

\* DiscordClient.setActivity() called on its own, as its public contract allows.
SetActivityCall(ok) ==
    /\ loaded
    /\ SetActivity("setActivity", ok)
    /\ UNCHANGED <<sess, clearing, destroying, savingReady, savingReconnect,
                   enabled, loaded, quiet, discMid>>
    /\ UNCHANGED aside

\* onload(): the fields' initial values; with settings.enabled loaded as true
\* onload() has already called connectDiscord() and waits for login().  The
\* host has reported the note that is open.
Init ==
    /\ AtLoad("A.md")
    /\ connected = FALSE
    /\ updateInterval = FALSE
    /\ timers = 0
    /\ clearing = [c \in Callers |-> 0]
    /\ destroying = [c \in Callers |-> 0]
    /\ savingReady = FALSE
    /\ savingReconnect = 0
    /\ loaded = TRUE
    /\ quiet = FALSE
    /\ discMid = FALSE
    /\ call = NoCall
    /\ returned = <<>>
    /\ enabled \in BOOLEAN
    /\ IF enabled
         THEN /\ rpc = 1
              /\ sess = [i \in SessIds |->
                           IF i = 1
                             THEN [st |-> "handshake", login |-> "pending",
                                   destroyed |-> FALSE]
                             ELSE Unused]
              /\ last = Event("connect", "pending", {<<"login", 1>>}, "none")
         ELSE /\ rpc = 0
              /\ sess = [i \in SessIds |-> Unused]
              /\ last = Event("onload", "void", {}, "none")

Next ==
    \/ ToggleConnection
    \/ ReconnectCommand
    \/ ReconnectResume
    \/ Onunload
    \/ \E i \in SessIds : Ready(i)
    \/ \E i \in SessIds : Disconnected(i)
    \/ \E i \in SessIds : LoginResolved(i)
    \/ \E i \in SessIds : LoginRejected(i)
    \/ \E c \in Callers, ok \in BOOLEAN : ClearActivitySettled(c, ok)
    \/ \E c \in Callers, ok \in BOOLEAN : DestroySettled(c, ok)
    \/ Tick
    \/ \E ok \in BOOLEAN : OnDiscordReadyResume(ok)
    \/ \E ok \in BOOLEAN : Rename(ok)
    \/ \E ok \in BOOLEAN : SetActivityCall(ok)

Spec == Init /\ [][Next]_vars

(***************************************************************************)
(* Host events and settings changes                                        *)
(*                                                                         *)
(* registerEventListeners() and updateSettings() of ObsidianDiscordRPC     *)
(* (src/unnamed/part_005), setFileStartTime() and updateSettings() of      *)
(* PresenceManager (src/unnamed/part_001).  Date.now() is the clock `now`, *)
(* which the environment advances.                                         *)
(***************************************************************************)

\* The value Date.now() may reach.
MaxClock == 1
\* Number of layout-change timeouts that may be pending at the same time.
MaxTimeouts == 2

\* The fields of the lifecycle that no host event and no settings change writes
\* directly.
orchestration == <<sess, clearing, destroying, savingReady, savingReconnect,
                   loaded, quiet, discMid>>

\* setFileStartTime() that restarts the session clock as well.
setFileStartTime_Both(time) ==
    /\ startTime' = time
    /\ sessionStartTime' = time

\* PresenceManager.setFileStartTime(time = Date.now()).
setFileStartTime(time) ==
    /\ startTime' = time
    /\ UNCHANGED sessionStartTime

\* handleFileOpen(file), run for the event `op`.
HandleFileOpen(op, file, ok) ==
    IF file # curFile
      THEN /\ curFile' = file
           /\ setFileStartTime(now)
           /\ UpdatePresence(op, ok)
      ELSE /\ UNCHANGED <<curFile, startTime, sessionStartTime, client>>
           /\ last' = Event(op, "void", {}, "none")

\* The workspace emits 'file-open' with `file`, a TFile or null.
FileOpen(file, ok) ==
    /\ loaded
    /\ HandleFileOpen("file-open", file, ok)
    /\ UNCHANGED <<orchestration, enabled, examined, shared, now, timeouts>>

\* The workspace emits 'active-leaf-change': handleActiveLeafChange(), where
\* `file` is what workspace.getActiveFile() returns.
ActiveLeafChange(file, ok) ==
    /\ loaded
    /\ IF file # NoFile
         THEN HandleFileOpen("active-leaf-change", file, ok)
         ELSE /\ UNCHANGED <<curFile, startTime, sessionStartTime, client>>
              /\ last' = Event("active-leaf-change", "void", {}, "none")
    /\ UNCHANGED <<orchestration, enabled, examined, shared, now, timeouts>>

\* The workspace emits 'layout-change': setTimeout(() => updatePresence(), 100).
LayoutChange ==
    /\ loaded
    /\ timeouts < MaxTimeouts
    /\ timeouts' = timeouts + 1
    /\ last' = Event("layout-change", "void", {<<"setTimeout", 100>>}, "none")
    /\ UNCHANGED <<client, orchestration, enabled, examined, shared, curFile,
                   startTime, sessionStartTime, now>>

\* A timeout scheduled by layout-change expires: updatePresence().  The
\* timeout is not registered with the plugin, so it outlives onunload().
LayoutTimeout(ok) ==
    /\ timeouts > 0
    /\ timeouts' = timeouts - 1
    /\ UpdatePresence("layoutTimeout", ok)
    /\ UNCHANGED <<orchestration, enabled, examined, shared, curFile,
                   startTime, sessionStartTime, now>>

\* Time passes.
Elapse ==
    /\ now < MaxClock
    /\ now' = now + 1
    /\ UNCHANGED <<lifecycle, examined, shared, curFile, startTime,
                   sessionStartTime, timeouts>>

\* PresenceManager.updateSettings(settings): the settings and a new
\* PrivacyManager built on them.
updateSettings(holders, settings) ==
    [holders EXCEPT !.presence = settings, !.privacy = settings]

\* ObsidianDiscordRPC.updateSettings(settings) up to `await
\* this.saveSettings()`; `en` is settings.enabled.  The settings tab passes the
\* object the plugin already holds and never writes its `enabled`.
UpdateSettings(settings, en) ==
    /\ loaded
    /\ ~savingSettings
    /\ settings = settingsOf.plugin => en = enabled
    /\ settingsOf' = updateSettings([settingsOf EXCEPT !.plugin = settings], settings)
    /\ enabled' = en
    /\ savingSettings' = TRUE
    /\ last' = Event("updateSettings", "pending", {<<"saveSettings", 0>>}, "none")
    /\ UNCHANGED <<client, orchestration, examined, host>>

\* updateSettings() after saveSettings(): connectDiscord(), disconnectDiscord()
\* or updatePresence(), by what settings.enabled and isConnected() are now.
UpdateSettingsResume(ok) ==
    /\ savingSettings
    /\ savingSettings' = FALSE
    /\ IF enabled /\ ~isConnected
         THEN ConnectDiscord
         ELSE IF ~enabled /\ isConnected
           THEN DisconnectBy("toggle") /\ UNCHANGED loaded
           ELSE /\ UpdatePresence("updateSettings", ok)
                /\ UNCHANGED <<orchestration, enabled>>
    /\ UNCHANGED <<examined, settingsOf, host>>

\* A session whose handshake failed.
Failed == [st |-> "failed", login |-> "rejected", destroyed |-> FALSE]

\* The plugin after n handshakes that failed one after the other: the catch
\* block of connect() keeps this.rpc, connectDiscord() has turned
\* settings.enabled off.  With n = 0 this is onload().
AfterFailures(n) ==
    /\ connected = FALSE
    /\ updateInterval = FALSE
    /\ timers = 0
    /\ clearing = [c \in Callers |-> 0]
    /\ destroying = [c \in Callers |-> 0]
    /\ savingReady = FALSE
    /\ savingReconnect = 0
    /\ loaded = TRUE
    /\ quiet = FALSE
    /\ discMid = FALSE
    /\ call = NoCall
    /\ returned = <<>>
    /\ enabled \in (IF n = 0 THEN BOOLEAN ELSE {FALSE})
    /\ rpc = (IF enabled THEN 1 ELSE n)
    /\ sess = [i \in SessIds |->
                 IF i <= n THEN Failed
                 ELSE IF enabled /\ i = 1
                   THEN [st |-> "handshake", login |-> "pending", destroyed |-> FALSE]
                   ELSE Unused]
    /\ last = (IF enabled THEN Event("connect", "pending", {<<"login", 1>>}, "none")
               ELSE IF n = 0 THEN Event("onload", "void", {}, "none")
               ELSE Event("connectReturn", "false", {}, "caught"))

\* The lifecycle and the settings changes, the current file fixed.  All but
\* two of the sessions a run may create are spent.
SettingsInit ==
    /\ AfterFailures(MaxSessions - 2)
    /\ AtLoad("A.md")

SettingsNext ==
    \/ Next
    \/ \E settings \in SettingsObjects, en \in BOOLEAN : UpdateSettings(settings, en)
    \/ \E ok \in BOOLEAN : UpdateSettingsResume(ok)

SettingsSpec == SettingsInit /\ [][SettingsNext]_vars

\* The lifecycle, the host events and the settings changes the settings tab
\* makes: it passes the object the plugin holds.  All but one of the sessions
\* a run may create are spent, and no file is open yet.
HostInit ==
    /\ AfterFailures(MaxSessions - 1)
    /\ AtLoad(NoFile)

HostNext ==
    \/ Next
    \/ \E settings \in {settingsOf.plugin} : UpdateSettings(settings, enabled)
    \/ \E ok \in BOOLEAN : UpdateSettingsResume(ok)
    \/ \E file \in HostFiles \cup {NoFile}, ok \in BOOLEAN : FileOpen(file, ok)
    \/ \E file \in HostFiles \cup {NoFile}, ok \in BOOLEAN : ActiveLeafChange(file, ok)
    \/ LayoutChange
    \/ \E ok \in BOOLEAN : LayoutTimeout(ok)
    \/ Elapse

HostSpec == HostInit /\ [][HostNext]_vars

(***************************************************************************)
(* Strings                                                                 *)
(*                                                                         *)
(* A string is a sequence of atoms.  An atom is one character ("%", "$",   *)
(* "/", " ", "F", ...) or a word that no input ever splits: the name of a  *)
(* placeholder ("vault_name") or a fixed text of the program ("Unknown").  *)
(* "%" is always an atom of its own, so '%vault_name%' occurs in the text  *)
(* exactly where "%", "vault_name", "%" are consecutive atoms.             *)
(***************************************************************************)

\* Number of entries settings.hiddenPaths may hold.
MaxPatterns == 2
\* Number of parts (placeholders, unknown tokens, literal text) of a template.
MaxParts == 2

\* null and undefined.
Null == [null |-> TRUE]

\* String.prototype.trim()
RECURSIVE trim(_)
trim(s) ==
    IF s # <<>> /\ Head(s) = " " THEN trim(Tail(s))
    ELSE IF s # <<>> /\ s[Len(s)] = " " THEN trim(SubSeq(s, 1, Len(s) - 1))
    ELSE s

\* String.prototype.startsWith(p)
startsWith(s, p) == Len(p) <= Len(s) /\ SubSeq(s, 1, Len(p)) = p

\* String.prototype.endsWith(p)
endsWith(s, p) == Len(p) <= Len(s) /\ SubSeq(s, Len(s) - Len(p) + 1, Len(s)) = p

\* The replacement text of one match (ECMAScript GetSubstitution, for a
\* pattern without capture groups): in the replacement string "$$" stands
\* for "$", "$&" for the matched text, "$`" for the text before the match,
\* "$'" for the text after it; any other "$" is literal.
RECURSIVE GetSubstitution(_, _, _, _)
GetSubstitution(matched, str, position, replacement) ==
    IF replacement = <<>> THEN <<>>
    ELSE IF Head(replacement) = "$" /\ Len(replacement) >= 2
              /\ replacement[2] \in {"$", "&", "`", "'"}
      THEN LET c == replacement[2]
               rest == SubSeq(replacement, 3, Len(replacement))
               text == CASE c = "$" -> <<"$">>
                         [] c = "&" -> matched
                         [] c = "`" -> SubSeq(str, 1, position - 1)
                         [] c = "'" -> SubSeq(str, position + Len(matched), Len(str))
           IN  text \o GetSubstitution(matched, str, position, rest)
      ELSE <<Head(replacement)>>
             \o GetSubstitution(matched, str, position, Tail(replacement))

\* str.replace(new RegExp(escaped pattern, 'g'), replacement) from position
\* on: the matches are found left to right and do not overlap.
RECURSIVE replaceFrom(_, _, _, _)
replaceFrom(str, position, pattern, replacement) ==
    IF position > Len(str) THEN <<>>
    ELSE IF position + Len(pattern) - 1 <= Len(str)
              /\ SubSeq(str, position, position + Len(pattern) - 1) = pattern
      THEN GetSubstitution(pattern, str, position, replacement)
             \o replaceFrom(str, position + Len(pattern), pattern, replacement)
      ELSE <<str[position]>> \o replaceFrom(str, position + 1, pattern, replacement)

replace(str, pattern, replacement) == replaceFrom(str, 1, pattern, replacement)

(***************************************************************************)
(* Settings, files and vaults                                              *)
(***************************************************************************)

DEFAULT_SETTINGS ==
    [enabled |-> FALSE,
     showFileName |-> TRUE,
     showVaultName |-> TRUE,
     timeMode |-> "file",
     useCustomTemplate |-> FALSE,
     customDetailsTemplate |-> <<"%", "activity_type", "%", ": ", "%", "active_note_name", "%">>,
     customStateTemplate |-> <<"Vault: ", "%", "vault_name", "%">>,
     enableCustomButton |-> FALSE,
     customButtonLabel |-> <<"Visit My Website">>,
     customButtonUrl |-> <<>>,
     hideVaultName |-> FALSE,
     hideNoteName |-> FALSE,
     hideSpecificPaths |-> FALSE,
     hiddenPaths |-> <<>>]

\* A TFolder, of which the program reads the name; the vault's root folder
\* has the empty name.
TFolder(name) == [name |-> name]

\* A TFile: its path is the path of its parent folder, its basename, a dot
\* and its extension.
TFile(dir, parent, basename, extension) ==
    [path |-> dir \o basename \o <<".">> \o extension,
     basename |-> basename,
     extension |-> extension,
     parent |-> parent]

\* A Vault, of which the program reads the name.
Vault(name) == [name |-> name]

getName(vault) == vault.name

(***************************************************************************)
(* PrivacyManager                                                          *)
(***************************************************************************)

\* isPathHidden without the test that a prefix pattern ends with "/".
isPathHidden_AnyPrefix(settings, filePath) ==
    IF ~settings.hideSpecificPaths \/ Len(settings.hiddenPaths) = 0
      THEN FALSE
      ELSE \E k \in 1..Len(settings.hiddenPaths) :
             LET pattern == trim(settings.hiddenPaths[k])
             IN  IF pattern = <<>> THEN FALSE
                 ELSE IF pattern = filePath THEN TRUE
                 ELSE startsWith(filePath, pattern)

\* isPathHidden(filePath): some entry of hiddenPaths, trimmed, is not empty
\* and equals the path, or ends with "/" and begins the path.
isPathHidden(settings, filePath) ==
    IF ~settings.hideSpecificPaths \/ Len(settings.hiddenPaths) = 0
      THEN FALSE
      ELSE \E k \in 1..Len(settings.hiddenPaths) :
             LET pattern == trim(settings.hiddenPaths[k])
             IN  IF pattern = <<>> THEN FALSE
                 ELSE IF pattern = filePath THEN TRUE
                 ELSE IF endsWith(pattern, <<"/">>) THEN startsWith(filePath, pattern)
                 ELSE FALSE

\* shouldHideFile with && in place of ||.
shouldHideFile_BothNeeded(settings, filePath) ==
    settings.hideNoteName
      /\ (IF filePath # <<>> THEN isPathHidden(settings, filePath) ELSE FALSE)

\* shouldHideFile(filePath?): an absent and an empty filePath are both falsy,
\* <<>> stands for either.
shouldHideFile(settings, filePath) ==
    settings.hideNoteName
      \/ (IF filePath # <<>> THEN isPathHidden(settings, filePath) ELSE FALSE)

shouldHideVault(settings) == settings.hideVaultName

(***************************************************************************)
(* TemplateProcessor                                                       *)
(***************************************************************************)

\* const placeholders = {...}: the entries in the order they are written,
\* which is the order Object.entries gives them in.
placeholders(context) ==
    LET currentFile == context.currentFile
        name == getName(context.vault)
    IN  << <<<<"%", "active_note_name", "%">>, IF currentFile # Null THEN currentFile.basename ELSE <<"Unknown">> >>,
           <<<<"%", "active_note_path", "%">>, IF currentFile # Null THEN currentFile.path ELSE <<>> >>,
           <<<<"%", "vault_name", "%">>, name>>,
           <<<<"%", "folder_name", "%">>,
             IF currentFile # Null
               THEN (IF currentFile.parent # Null /\ currentFile.parent.name # <<>>
                       THEN currentFile.parent.name
                       ELSE <<"Root">>)
               ELSE <<"Unknown">> >>,
           <<<<"%", "file_extension", "%">>, IF currentFile # Null THEN currentFile.extension ELSE <<>> >>,
           <<<<"%", "workspace_name", "%">>, name>>,
           <<<<"%", "activity_type", "%">>, IF context.isReading THEN <<"Reading">> ELSE <<"Editing">> >> >>

\* Object.entries(placeholders).forEach(...): entry k and the entries after
\* it, each applied to the result of the one before.
RECURSIVE forEach(_, _, _)
forEach(result, entries, k) ==
    IF k > Len(entries) THEN result
    ELSE forEach(replace(result, entries[k][1], entries[k][2]), entries, k + 1)

\* processTemplate with the template trimmed before the substitution.
processTemplate_Trimmed(template, context) ==
    IF template = <<>> THEN <<>>
    ELSE forEach(trim(template), placeholders(context), 1)

\* processTemplate(template, context)
processTemplate(template, context) ==
    IF template = <<>> THEN <<>>
    ELSE forEach(template, placeholders(context), 1)

(***************************************************************************)
(* PresenceManager.createActivity                                          *)
(*                                                                         *)
(* src/unnamed/part_000 and src/unnamed/part_001 each hold a PresenceManager; *)
(* they differ in the details block of createActivity.  A block gives the  *)
(* field it sets, or no field.  `this` is the PresenceManager: its          *)
(* settings, vault, workspace, startTime and sessionStartTime.             *)
(***************************************************************************)

NoField == [f \in {} |-> TRUE]

\* isInReadingMode(): the active leaf shows a markdown view in preview mode.
isInReadingMode(workspace) ==
    LET activeLeaf == workspace.activeLeaf
    IN  IF activeLeaf = Null THEN FALSE
        ELSE LET view == activeLeaf.view
             IN  IF view = Null THEN FALSE
                 ELSE IF view.viewType = "markdown"
                   THEN view.currentMode # Null /\ view.currentMode.type = "preview"
                   ELSE FALSE

\* const context: TemplateContext = {currentFile, vault: this.vault, isReading}
TemplateContext(this, currentFile) ==
    [currentFile |-> currentFile,
     vault |-> this.vault,
     isReading |-> isInReadingMode(this.workspace)]

\* const shouldHideFile = currentFile && this.privacyManager.shouldHideFile(currentFile.path)
hidesFile(this, currentFile) ==
    currentFile # Null /\ shouldHideFile(this.settings, currentFile.path)

\* The activity type that does not look at the view mode.
activityType_Editing(this) == "Editing"

\* const activityType = isReading ? 'Reading' : 'Editing'
activityType(this) == IF isInReadingMode(this.workspace) THEN "Reading" ELSE "Editing"

\* The details block of part_001 with the custom template rendered whether
\* or not the file is hidden.
details_part001_TemplateFirst(this, currentFile) ==
    IF this.settings.useCustomTemplate /\ trim(this.settings.customDetailsTemplate) # <<>>
      THEN [details |-> processTemplate(this.settings.customDetailsTemplate,
                                        TemplateContext(this, currentFile))]
      ELSE IF ~hidesFile(this, currentFile) /\ ~this.settings.useCustomTemplate
        THEN IF currentFile # Null /\ this.settings.showFileName
               THEN [details |-> <<activityType(this), ": ">> \o currentFile.basename]
               ELSE [details |-> <<activityType(this), " a note">>]
        ELSE NoField

\* The details block of part_000 with the default text as the fallback of a
\* blank custom template.
details_part000_BlankFallsBack(this, currentFile) ==
    IF ~hidesFile(this, currentFile)
      THEN IF this.settings.useCustomTemplate /\ trim(this.settings.customDetailsTemplate) # <<>>
             THEN [details |-> processTemplate(this.settings.customDetailsTemplate,
                                               TemplateContext(this, currentFile))]
             ELSE IF this.settings.showFileName
               THEN IF currentFile # Null
                      THEN [details |-> <<activityType(this), ": ">> \o currentFile.basename]
                      ELSE [details |-> <<activityType(this), " a note">>]
               ELSE NoField
      ELSE NoField

\* part_000, `if (!shouldHideFile) {...}`: the details field.
details_part000(this, currentFile) ==
    IF ~hidesFile(this, currentFile)
      THEN IF this.settings.useCustomTemplate /\ trim(this.settings.customDetailsTemplate) # <<>>
             THEN [details |-> processTemplate(this.settings.customDetailsTemplate,
                                               TemplateContext(this, currentFile))]
             ELSE IF ~this.settings.useCustomTemplate /\ this.settings.showFileName
               THEN IF currentFile # Null
                      THEN [details |-> <<activityType(this), ": ">> \o currentFile.basename]
                      ELSE [details |-> <<activityType(this), " a note">>]
               ELSE NoField
      ELSE NoField

\* part_001, `if (!shouldHideFile) {...}`: the details field.
details_part001(this, currentFile) ==
    IF ~hidesFile(this, currentFile)
      THEN IF this.settings.useCustomTemplate /\ trim(this.settings.customDetailsTemplate) # <<>>
             THEN [details |-> processTemplate(this.settings.customDetailsTemplate,
                                               TemplateContext(this, currentFile))]
             ELSE IF ~this.settings.useCustomTemplate
               THEN IF currentFile # Null /\ this.settings.showFileName
                      THEN [details |-> <<activityType(this), ": ">> \o currentFile.basename]
                      ELSE [details |-> <<activityType(this), " a note">>]
               ELSE NoField
      ELSE NoField

\* The state block of part_000 without the test of shouldHideVault.
state_part000_ShowOnly(this, currentFile) ==
    IF this.settings.showVaultName
      THEN IF this.settings.useCustomTemplate /\ trim(this.settings.customStateTemplate) # <<>>
             THEN [state |-> processTemplate(this.settings.customStateTemplate,
                                             TemplateContext(this, currentFile))]
             ELSE IF ~this.settings.useCustomTemplate
               THEN [state |-> <<"Vault: ">> \o getName(this.vault)]
               ELSE NoField
      ELSE NoField

\* part_000, `if (this.settings.showVaultName && !shouldHideVault) {...}`:
\* the state field.
state_part000(this, currentFile) ==
    IF this.settings.showVaultName /\ ~shouldHideVault(this.settings)
      THEN IF this.settings.useCustomTemplate /\ trim(this.settings.customStateTemplate) # <<>>
             THEN [state |-> processTemplate(this.settings.customStateTemplate,
                                             TemplateContext(this, currentFile))]
             ELSE IF ~this.settings.useCustomTemplate
               THEN [state |-> <<"Vault: ">> \o getName(this.vault)]
               ELSE NoField
      ELSE NoField

\* part_001, `if (this.settings.showVaultName && !shouldHideVault) {...}`:
\* the state field.
state_part001(this, currentFile) ==
    IF this.settings.showVaultName /\ ~shouldHideVault(this.settings)
      THEN IF this.settings.useCustomTemplate /\ trim(this.settings.customStateTemplate) # <<>>
             THEN [state |-> processTemplate(this.settings.customStateTemplate,
                                             TemplateContext(this, currentFile))]
             ELSE IF ~this.settings.useCustomTemplate
               THEN [state |-> <<"Vault: ">> \o getName(this.vault)]
               ELSE NoField
      ELSE NoField

\* The payload createActivity starts from.
baseActivity ==
    [largeImageKey |-> "obsidian",
     largeImageText |-> "Obsidian - A knowledge base",
     smallImageKey |-> "obsidian_small",
     smallImageText |-> "Taking notes",
     instance |-> FALSE]

\* The timestamp taken from the per-file start time whatever timeMode says.
startTimestamp_FileTime(this) ==
    [startTimestamp |-> this.startTime \div 1000]

\* activity.startTimestamp = Math.floor(timeToUse / 1000); both parts.
startTimestamp(this) ==
    LET timeToUse == IF this.settings.timeMode = "session"
                       THEN this.sessionStartTime
                       ELSE this.startTime
    IN  [startTimestamp |-> timeToUse \div 1000]

\* The buttons field assigned whether or not the list is empty.
buttons_AlwaysAssigned(this) ==
    IF this.settings.enableCustomButton /\ this.settings.customButtonUrl # <<>>
      THEN [buttons |-> << [label |-> IF this.settings.customButtonLabel # <<>>
                                        THEN this.settings.customButtonLabel
                                        ELSE <<"Visit My Website">>,
                            url |-> this.settings.customButtonUrl] >>]
      ELSE [buttons |-> <<>>]

\* The buttons field, set when the list of buttons is not empty; both parts.
buttons(this) ==
    IF this.settings.enableCustomButton /\ this.settings.customButtonUrl # <<>>
      THEN [buttons |-> << [label |-> IF this.settings.customButtonLabel # <<>>
                                        THEN this.settings.customButtonLabel
                                        ELSE <<"Visit My Website">>,
                            url |-> this.settings.customButtonUrl] >>]
      ELSE NoField

\* createActivity(currentFile) of part_000
createActivity_part000(this, currentFile) ==
    baseActivity @@ details_part000(this, currentFile) @@ state_part000(this, currentFile)
      @@ startTimestamp(this) @@ buttons(this)

\* createActivity(currentFile) of part_001
createActivity_part001(this, currentFile) ==
    baseActivity @@ details_part001(this, currentFile) @@ state_part001(this, currentFile)
      @@ startTimestamp(this) @@ buttons(this)

(***************************************************************************)
(* The pure methods, called on their own                                   *)
(*                                                                         *)
(* `call` holds one call of shouldHideFile, shouldHideVault,               *)
(* processTemplate or createActivity with its arguments; the action of     *)
(* that method runs it and leaves what it returned in `returned`.          *)
(***************************************************************************)

PlaceholderNames ==
    {"active_note_name", "active_note_path", "vault_name", "folder_name",
     "file_extension", "workspace_name", "activity_type"}

\* Note names: a plain one, one that reads as a placeholder, one that reads
\* as a replacement pattern.
Basenames == {<<"N">>, <<"%", "vault_name", "%">>, <<"$", "&">>}

\* Files in folder F, in the vault's root, in folder FG, and one whose
\* parent is null.
Files ==
    {TFile(<<"F", "/">>, TFolder(<<"F">>), b, <<"md">>) : b \in Basenames}
      \cup {TFile(<<>>, TFolder(<<>>), b, <<"md">>) : b \in Basenames}
      \cup {TFile(<<"F", "G", "/">>, TFolder(<<"F", "G">>), <<"N">>, <<"md">>),
            TFile(<<>>, Null, <<"N">>, <<"md">>)}

Vaults == {Vault(<<"V">>), Vault(<<"%", "folder_name", "%">>), Vault(<<"$", "$">>)}

\* Entries of settings.hiddenPaths: a folder pattern, a bare folder name,
\* a file, blank and empty entries, entries with surrounding spaces.
Patterns ==
    {<<"F", "/">>, <<"F">>, <<"F", "/", "N", ".", "md">>, <<" ">>, <<>>,
     <<" ", "F", "/">>, <<"F", "/", " ">>}

PatternLists == UNION {[1..n -> Patterns] : n \in 0..MaxPatterns}

\* Arguments of shouldHideFile: the paths of the files, the bare folder name,
\* a path that begins with a space, and no path.
Paths ==
    {f.path : f \in Files}
      \cup {<<"F">>, <<" ", "F", "/", "N", ".", "md">>, <<>>}

\* What a template is made of: the placeholders, a token outside the
\* vocabulary, a lone "%", a placeholder's name without its "%" signs,
\* literal text and a space.
TemplateParts ==
    {<<"%", n, "%">> : n \in PlaceholderNames}
      \cup {<<"%", "foo", "%">>, <<"%">>, <<"vault_name">>, <<"x">>, <<" ">>}

RECURSIVE Concat(_)
Concat(parts) == IF parts = <<>> THEN <<>> ELSE Head(parts) \o Concat(Tail(parts))

Templates == {Concat(p) : p \in UNION {[1..n -> TemplateParts] : n \in 0..MaxParts}}

Contexts ==
    [currentFile : Files \cup {Null}, vault : Vaults, isReading : BOOLEAN]

\* The privacy settings in every combination.
PrivacySettings ==
    {[DEFAULT_SETTINGS EXCEPT !.hideNoteName = n, !.hideSpecificPaths = p,
                              !.hideVaultName = v, !.hiddenPaths = l] :
       n \in BOOLEAN, p \in BOOLEAN, v \in BOOLEAN, l \in PatternLists}

\* Templates of the settings: an empty one, a blank one and the two defaults.
SettingsTemplates ==
    {<<>>, <<" ">>, DEFAULT_SETTINGS.customDetailsTemplate,
     DEFAULT_SETTINGS.customStateTemplate}

\* The display, template and privacy settings in every combination.
ActivitySettings ==
    {[DEFAULT_SETTINGS EXCEPT !.showFileName = sf, !.showVaultName = sv,
                              !.useCustomTemplate = ct,
                              !.customDetailsTemplate = dt, !.customStateTemplate = st,
                              !.hideNoteName = n, !.hideSpecificPaths = p,
                              !.hideVaultName = v, !.hiddenPaths = l] :
       sf \in BOOLEAN, sv \in BOOLEAN, ct \in BOOLEAN,
       dt \in SettingsTemplates, st \in SettingsTemplates,
       n \in BOOLEAN, p \in BOOLEAN, v \in BOOLEAN,
       l \in {<<>>, << <<"F", "/">> >>}}

\* A workspace whose active leaf shows a markdown view in the given mode.
Workspace(mode) ==
    [activeLeaf |-> [view |-> [viewType |-> "markdown", currentMode |-> [type |-> mode]]]]

Workspaces == {Workspace("preview"), Workspace("source")}

\* PresenceManager objects: the constructor's arguments and the two times.
PresenceManagers ==
    [settings : ActivitySettings, vault : Vaults, workspace : Workspaces,
     startTime : {61500}, sessionStartTime : {1200}]

\* The time mode with the display toggles, the template mode and the two
\* unconditional privacy toggles in every combination.
TimedSettings ==
    {[DEFAULT_SETTINGS EXCEPT !.timeMode = tm, !.showFileName = sf,
                              !.showVaultName = sv, !.useCustomTemplate = ct,
                              !.hideNoteName = n, !.hideVaultName = v] :
       tm \in {"file", "session"}, sf \in BOOLEAN, sv \in BOOLEAN,
       ct \in BOOLEAN, n \in BOOLEAN, v \in BOOLEAN}

\* PresenceManager objects in either time mode, their start times (in
\* milliseconds) on and off a whole second.
TimedPresenceManagers ==
    [settings : TimedSettings, vault : Vaults, workspace : Workspaces,
     startTime : {999, 61500, 62000}, sessionStartTime : {1200, 61000}]

\* The custom button: the toggle, a URL that is empty, blank or set, a label
\* that is empty, blank, set or the default, with the template mode and the
\* note-name privacy toggle.
ButtonSettings ==
    {[DEFAULT_SETTINGS EXCEPT !.enableCustomButton = b, !.customButtonUrl = u,
                              !.customButtonLabel = l, !.useCustomTemplate = ct,
                              !.hideNoteName = n] :
       b \in BOOLEAN, u \in {<<>>, <<" ">>, <<"https://example.com">>},
       l \in {<<>>, <<" ">>, <<"My Site">>, DEFAULT_SETTINGS.customButtonLabel},
       ct \in BOOLEAN, n \in BOOLEAN}

\* PresenceManager objects with the custom button in every configuration.
ButtonPresenceManagers ==
    [settings : ButtonSettings, vault : Vaults, workspace : Workspaces,
     startTime : {61500}, sessionStartTime : {1200}]

Calls ==
    [op : {"shouldHideFile"}, settings : PrivacySettings, filePath : Paths]
      \cup [op : {"shouldHideVault"}, settings : PrivacySettings]
      \cup [op : {"processTemplate"}, template : Templates, context : Contexts]
      \cup [op : {"createActivity"}, part : {"part_000", "part_001"},
            this : PresenceManagers \cup TimedPresenceManagers
                     \cup ButtonPresenceManagers,
            currentFile : Files \cup {Null}]

ShouldHideFileCall ==
    /\ call.op = "shouldHideFile"
    /\ returned = <<>>
    /\ returned' = <<shouldHideFile(call.settings, call.filePath)>>
    /\ UNCHANGED <<call, lifecycle, shared, host>>

ShouldHideVaultCall ==
    /\ call.op = "shouldHideVault"
    /\ returned = <<>>
    /\ returned' = <<shouldHideVault(call.settings)>>
    /\ UNCHANGED <<call, lifecycle, shared, host>>

ProcessTemplateCall ==
    /\ call.op = "processTemplate"
    /\ returned = <<>>
    /\ returned' = <<processTemplate(call.template, call.context)>>
    /\ UNCHANGED <<call, lifecycle, shared, host>>

CreateActivityCall_part000 ==
    /\ call.op = "createActivity"
    /\ call.part = "part_000"
    /\ returned = <<>>
    /\ returned' = <<createActivity_part000(call.this, call.currentFile)>>
    /\ UNCHANGED <<call, lifecycle, shared, host>>

CreateActivityCall_part001 ==
    /\ call.op = "createActivity"
    /\ call.part = "part_001"
    /\ returned = <<>>
    /\ returned' = <<createActivity_part001(call.this, call.currentFile)>>
    /\ UNCHANGED <<call, lifecycle, shared, host>>

\* The plugin is loaded and stays disconnected; one call is about to run.
PureInit ==
    /\ AtLoad(NoFile)
    /\ rpc = 0
    /\ connected = FALSE
    /\ updateInterval = FALSE
    /\ timers = 0
    /\ sess = [i \in SessIds |-> Unused]
    /\ clearing = [c \in Callers |-> 0]
    /\ destroying = [c \in Callers |-> 0]
    /\ savingReady = FALSE
    /\ savingReconnect = 0
    /\ enabled = FALSE
    /\ loaded = TRUE
    /\ last = Event("onload", "void", {}, "none")
    /\ quiet = FALSE
    /\ discMid = FALSE
    /\ call \in Calls
    /\ returned = <<>>

PureNext ==
    \/ ShouldHideFileCall
    \/ ShouldHideVaultCall
    \/ ProcessTemplateCall
    \/ CreateActivityCall_part000
    \/ CreateActivityCall_part001

PureSpec == PureInit /\ [][PureNext]_vars

(***************************************************************************)
(* Properties                                                              *)
(***************************************************************************)

\* C1: at most one periodic refresh timer is active at a time, whatever the
\* interleaving of connect(), disconnect(), ready and disconnected signals
\* and handshake outcomes.
C1_AtMostOneTimer == timers <= 1

\* C2: whenever the connection is not Ready (connected is false) no periodic
\* refresh timer is active.
C2_NoTimerUnlessConnected == ~connected => timers = 0

\* C3: when a disconnect() that was called while connected returns, the state
\* is Disconnected, whether clearActivity() and destroy() succeeded or
\* failed, and no teardown failure reaches the caller.
C3_DisconnectedAfterDisconnect ==
    last.op = "disconnectReturn" => (~connected /\ last.err # "thrown")

\* C4: connect() called while Ready returns true and creates no transport
\* session, issues no login and creates no timer; the connection state, the
\* transport handle and the timer are unchanged.
C4_ConnectWhileReadyIsNoop ==
    [][(connected /\ last'.op = "connect")
         => (/\ last'.ret = "true"
             /\ last'.calls = {}
             /\ UNCHANGED <<rpc, connected, updateInterval, timers, sess>>)]_vars

\* connect() has just returned true at once, the client being Ready.
C4_Witness == connected /\ last.op = "connect" /\ last.ret = "true"

\* C5: after a disconnected signal that arrives while Ready the state is
\* Disconnected and the on-disconnected callback has run, no periodic tick
\* fires until a later ready signal, and a setActivity() call made while
\* Disconnected forwards nothing to the transport.
C5_DisconnectedSignalStopsRefresh ==
    /\ last.op = "disconnected"
         => (~connected /\ <<"onDisconnectedCallback", 0>> \in last.calls)
    /\ last.op = "tick" => ~quiet
    /\ ~connected => Sends(last) = {}

\* C6: when login() is rejected, connect() returns false without throwing
\* and the state is Disconnected when it returns.
C6_RejectedLoginReturnsFalse ==
    [][(\E i \in SessIds : sess[i].login = "pending" /\ sess'[i].login = "rejected")
         => (/\ last'.op = "connectReturn"
             /\ last'.ret = "false"
             /\ last'.err # "thrown"
             /\ ~connected')]_vars

\* A login was rejected while another session had made the client Ready.
C6_Witness ==
    /\ last.op = "connectReturn"
    /\ last.ret = "false"
    /\ \E i \in SessIds : sess[i].login = "rejected"
    /\ \E i \in SessIds : sess[i].st = "open"

\* C7: a payload reaches the transport only while connected is true and a
\* transport handle is held, and it goes to that handle; setActivity() in any
\* other state forwards nothing.
C7_ForwardOnlyWhenReady ==
    \A c \in Sends(last) : connected /\ rpc # 0 /\ c[2] = rpc

\* setActivity() has just forwarded a payload.
C7_Witness == last.op = "setActivity" /\ Sends(last) # {}

\* C8: the connection state changes only in connect(), disconnect(), the
\* ready handler and the disconnected handler; setActivity() (the
\* transmission succeeding or failing), a periodic tick and a host editor
\* event leave the connection state, the transport handle and the timer
\* unchanged.
C8_OnlyLifecycleStepsChangeState ==
    [][/\ (last'.op \in {"setActivity", "rename", "tick", "onDiscordReady"})
            => UNCHANGED <<rpc, connected, updateInterval, timers>>
       /\ (connected' # connected)
            => last'.op \in {"ready", "disconnected", "connectReturn",
                              "disconnectReturn"}]_vars

\* A host event has just sent a payload and the transmission failed.
C8_Witness == last.op = "rename" /\ last.err = "caught" /\ connected /\ timers > 0

\* C9: disconnect() called while not connected issues neither clearActivity
\* nor destroy and leaves the connection state, the transport handle and the
\* timer unchanged.
C9_DisconnectWhileDisconnectedIsNoop ==
    [][(~connected /\ last'.op = "disconnect")
         => (/\ last'.ret = "void"
             /\ last'.calls = {}
             /\ UNCHANGED <<rpc, connected, updateInterval, timers, sess>>)]_vars

\* disconnect() has just returned at once although a transport handle is held.
C9_Witness == ~connected /\ rpc # 0 /\ last.op = "disconnect" /\ last.ret = "void"

\* C10: a disconnect() requested while a connect() handshake is in flight
\* takes effect after the connect settles: once every handshake has settled
\* and no disconnect() is in progress, the state is Disconnected.
C10_DisconnectDuringConnectWins ==
    (discMid /\ ConnectsSettled /\ DiscInFlight = 0) => ~connected

(***************************************************************************)
(* Properties of the privacy filter, the template engine and the payload   *)
(***************************************************************************)

\* A hidden-path pattern matches a path: the pattern without its surrounding
\* whitespace is not empty and equals the path, or ends with "/" and the
\* path starts with it.
Matches(pattern, path) ==
    LET p == trim(pattern)
    IN  /\ p # <<>>
        /\ \/ p = path
           \/ /\ p[Len(p)] = "/"
              /\ Len(p) <= Len(path)
              /\ \A k \in 1..Len(p) : path[k] = p[k]

\* The privacy filter decides that the file at this path must be hidden.
MustHide(settings, path) ==
    \/ settings.hideNoteName
    \/ /\ settings.hideSpecificPaths
       /\ \E k \in 1..Len(settings.hiddenPaths) : Matches(settings.hiddenPaths[k], path)

CreateActivityReturned == call.op = "createActivity" /\ returned # <<>>

C13_NoTextWithBothTogglesOff ==
    (/\ CreateActivityReturned
     /\ ~call.this.settings.showFileName
     /\ ~call.this.settings.showVaultName)
      => ("details" \notin DOMAIN returned[1] /\ "state" \notin DOMAIN returned[1])

\* The payload createActivity of the given part builds.
Payload(part, this, currentFile) ==
    IF part = "part_000"
      THEN createActivity_part000(this, currentFile)
      ELSE createActivity_part001(this, currentFile)

\* C14: hiding the vault name is non-interference: whenever hideVaultName is
\* set, two runs of createActivity that differ only in the vault name build
\* identical payloads, for every template configuration.
C14_VaultNameDoesNotInterfere ==
    (CreateActivityReturned /\ call.this.settings.hideVaultName)
      => \A v \in Vaults :
           Payload(call.part, [call.this EXCEPT !.vault = v], call.currentFile) = returned[1]

\* C15: hiding a note is non-interference: whenever the open file must be
\* hidden, two runs of createActivity that differ only in that file's
\* basename, folder name or extension, both files hidden, build identical
\* payloads, for every template configuration.
C15_HiddenNoteDoesNotInterfere ==
    (/\ CreateActivityReturned
     /\ call.currentFile # Null
     /\ MustHide(call.this.settings, call.currentFile.path))
      => \A f \in Files :
           MustHide(call.this.settings, f.path)
             => Payload(call.part, call.this, f) = returned[1]

\* C16: for every settings record and every path, shouldHideFile(path) is
\* true if and only if hideNoteName is set, or hideSpecificPaths is set and
\* the path matches at least one entry of hiddenPaths; shouldHideVault() is
\* true if and only if hideVaultName is set; neither call changes the
\* settings.
C16_PrivacyFilterContract ==
    [][/\ (call.op = "shouldHideFile" /\ returned = <<>> /\ returned' # <<>>)
            => /\ returned'[1] <=> MustHide(call.settings, call.filePath)
               /\ call'.settings = call.settings
       /\ (call.op = "shouldHideVault" /\ returned = <<>> /\ returned' # <<>>)
            => /\ returned'[1] <=> call.settings.hideVaultName
               /\ call'.settings = call.settings]_vars

\* shouldHideFile returned true for a path that only the second of two
\* hidden-path entries matches, with hideNoteName off.
C16_Witness ==
    /\ call.op = "shouldHideFile"
    /\ returned = <<TRUE>>
    /\ ~call.settings.hideNoteName
    /\ Len(call.settings.hiddenPaths) = 2
    /\ ~Matches(call.settings.hiddenPaths[1], call.filePath)

\* A hidden-path pattern matches a path as the rule is worded: the pattern
\* as it stands equals the path, or ends with "/" and the path starts with
\* it; empty and whitespace-only patterns match nothing.
MatchesAsWritten(pattern, path) ==
    /\ trim(pattern) # <<>>
    /\ \/ pattern = path
       \/ /\ pattern[Len(pattern)] = "/"
          /\ Len(pattern) <= Len(path)
          /\ \A k \in 1..Len(pattern) : path[k] = pattern[k]

\* shouldHideFile has run with hideSpecificPaths on and hideNoteName off, so
\* that its result is the result of the pattern matching.
PathMatchingReturned ==
    /\ call.op = "shouldHideFile"
    /\ returned # <<>>
    /\ call.settings.hideSpecificPaths
    /\ ~call.settings.hideNoteName

\* C17 as stated: a hidden-path pattern matches a path exactly when the
\* pattern equals the path, or the pattern ends with "/" and the path starts
\* with the pattern; empty or whitespace-only patterns match nothing.
C17_PatternRuleAsStated ==
    PathMatchingReturned
      => (returned[1] <=> \E k \in 1..Len(call.settings.hiddenPaths) :
                            MatchesAsWritten(call.settings.hiddenPaths[k], call.filePath))

\* C17, amended: a hidden-path pattern matches a path exactly when the
\* pattern with its leading and trailing whitespace removed is not empty and
\* equals the path, or ends with "/" and the path starts with it.  With
\* hideSpecificPaths on, hideNoteName off and the single pattern "F/",
\* shouldHideFile is true for every path beginning with "F/" and false for
\* every other path, the siblings in folder FG and the bare path "F"
\* included.
C17_PatternRuleOnTrimmedPattern ==
    PathMatchingReturned
      => /\ returned[1] <=> \E k \in 1..Len(call.settings.hiddenPaths) :
                              Matches(call.settings.hiddenPaths[k], call.filePath)
         /\ call.settings.hiddenPaths = << <<"F", "/">> >>
              => (returned[1] <=> (/\ Len(call.filePath) >= 2
                                   /\ call.filePath[1] = "F"
                                   /\ call.filePath[2] = "/"))

\* The single pattern "F/" did not hide a note of the sibling folder FG.
C17_Witness ==
    /\ PathMatchingReturned
    /\ call.settings.hiddenPaths = << <<"F", "/">> >>
    /\ call.filePath = <<"F", "G", "/", "N", ".", "md">>
    /\ returned = <<FALSE>>

ProcessTemplateReturned == call.op = "processTemplate" /\ returned # <<>>

\* The context value a placeholder stands for.
ValueOf(name, context) ==
    LET file == context.currentFile
    IN  CASE name = "active_note_name" ->
               IF file # Null THEN file.basename ELSE <<"Unknown">>
          [] name = "active_note_path" ->
               IF file # Null THEN file.path ELSE <<>>
          [] name = "folder_name" ->
               IF file = Null THEN <<"Unknown">>
               ELSE IF file.parent = Null THEN <<"Root">>
               ELSE IF file.parent.name = <<>> THEN <<"Root">>
               ELSE file.parent.name
          [] name = "file_extension" ->
               IF file # Null THEN file.extension ELSE <<>>
          [] name \in {"vault_name", "workspace_name"} -> context.vault.name
          [] name = "activity_type" ->
               IF context.isReading THEN <<"Reading">> ELSE <<"Editing">>

\* The template from position on with every placeholder replaced by its
\* context value in one pass; what is put in is not looked at again.
RECURSIVE SinglePass(_, _, _)
SinglePass(template, position, context) ==
    IF position > Len(template) THEN <<>>
    ELSE IF /\ position + 2 <= Len(template)
            /\ template[position] = "%"
            /\ template[position + 1] \in PlaceholderNames
            /\ template[position + 2] = "%"
      THEN ValueOf(template[position + 1], context)
             \o SinglePass(template, position + 3, context)
      ELSE <<template[position]>> \o SinglePass(template, position + 1, context)

\* C18: processTemplate performs literal, single-level substitution: its
\* result is the template with every occurrence of each of the seven
\* placeholders replaced by its context value in one simultaneous pass; a
\* substituted value that holds placeholder text is emitted unchanged, and
\* every token outside the vocabulary is left untouched.
C18_LiteralSinglePassSubstitution ==
    ProcessTemplateReturned
      => returned[1] = SinglePass(call.template, 1, call.context)

\* The template holds none of the seven placeholders.
NoPlaceholder(template) ==
    ~\E k \in 1..Len(template) :
        /\ k + 2 <= Len(template)
        /\ template[k] = "%"
        /\ template[k + 1] \in PlaceholderNames
        /\ template[k + 2] = "%"

\* C19: for every template s that holds none of the placeholder tokens and
\* every context, processTemplate(s, ctx) = s, and processTemplate applied to
\* the result gives the same string; the empty template gives the empty
\* string.
C19_NoPlaceholderNoChange ==
    (ProcessTemplateReturned /\ NoPlaceholder(call.template))
      => /\ returned[1] = call.template
         /\ processTemplate(returned[1], call.context) = returned[1]
         /\ call.template = <<>> => returned[1] = <<>>

\* A template with a token outside the vocabulary and a placeholder's name
\* without its "%" signs came back as it was.
C19_Witness ==
    /\ ProcessTemplateReturned
    /\ call.template = <<"%", "foo", "%", "vault_name">>
    /\ returned = <<call.template>>

\* C20: with no current file %active_note_name% and %folder_name% render as
\* "Unknown" and %active_note_path% and %file_extension% as the empty
\* string; with a current file that has no parent folder, or a parent with
\* an empty name, %folder_name% renders as "Root"; %workspace_name% always
\* renders the same text as %vault_name%; %activity_type% renders "Reading"
\* when the read-mode flag is true and "Editing" otherwise.
C20_PlaceholderFallbacks ==
    ProcessTemplateReturned
      => LET t == call.template
             file == call.context.currentFile
         IN  /\ (file = Null /\ t \in {<<"%", "active_note_name", "%">>,
                                       <<"%", "folder_name", "%">>})
                  => returned[1] = <<"Unknown">>
             /\ (file = Null /\ t \in {<<"%", "active_note_path", "%">>,
                                       <<"%", "file_extension", "%">>})
                  => returned[1] = <<>>
             /\ (/\ file # Null
                 /\ (file.parent = Null \/ file.parent.name = <<>>)
                 /\ t = <<"%", "folder_name", "%">>)
                  => returned[1] = <<"Root">>
             /\ t = <<"%", "workspace_name", "%">>
                  => returned[1] = processTemplate(<<"%", "vault_name", "%">>, call.context)
             /\ t = <<"%", "activity_type", "%">>
                  => returned[1] = IF call.context.isReading
                                     THEN <<"Reading">>
                                     ELSE <<"Editing">>

\* The same PresenceManager in the other time mode.
OtherTimeMode(this) ==
    [this EXCEPT !.settings.timeMode = IF @ = "session" THEN "file" ELSE "session"]

\* The time createActivity is to count from.
TimeToUse(this) ==
    IF this.settings.timeMode = "session" THEN this.sessionStartTime ELSE this.startTime

\* C21: every payload createActivity builds has a startTimestamp, the whole
\* seconds of the session start time in 'session' mode and of the per-file
\* start time otherwise (the largest s with s * 1000 <= T); the payload of
\* the same call in the other time mode differs at most in startTimestamp.
C21_StartTimestampByTimeMode ==
    CreateActivityReturned =>
      LET activity == returned[1]
          other == Payload(call.part, OtherTimeMode(call.this), call.currentFile)
      IN  /\ "startTimestamp" \in DOMAIN activity
          /\ activity.startTimestamp * 1000 <= TimeToUse(call.this)
          /\ TimeToUse(call.this) < (activity.startTimestamp + 1) * 1000
          /\ DOMAIN other = DOMAIN activity
          /\ \A f \in DOMAIN activity \ {"startTimestamp"} : other[f] = activity[f]

\* A payload in session mode whose two start times fall in different seconds
\* and whose per-file time is off a whole second.
C21_Witness ==
    /\ CreateActivityReturned
    /\ call.this.settings.timeMode = "session"
    /\ call.this.startTime = 61500
    /\ call.this.sessionStartTime = 1200
    /\ returned[1].startTimestamp = 1
    /\ Payload(call.part, OtherTimeMode(call.this), call.currentFile).startTimestamp = 61

\* The step is a run of the handler `op`: every handler leaves its name in
\* `last`, and only the passing of time leaves `last` as it was.
Ran(op) == last'.op = op /\ last' # last

\* C22: every file-open event the host delivers restarts the per-file clock,
\* startTime becomes the current time, whatever file the event carries.
C22_EveryFileOpenResetsFileTime ==
    [][Ran("file-open") => startTime' = now]_vars

\* C23: no step changes the session start time.
C23_SessionStartTimeNeverChanges ==
    [][sessionStartTime' = sessionStartTime]_vars

\* A file-open has restarted the per-file clock after time has passed, and
\* the connection has been up since: the two start times differ.
C23_Witness ==
    /\ startTime > sessionStartTime
    /\ curFile # NoFile
    /\ connected
    /\ timers > 0

\* The handlers of the host's editor events; layout-change acts when its
\* timeout expires.
EditorEvents == {"file-open", "active-leaf-change", "rename", "layoutTimeout"}

\* C24: a file-open, an active-leaf change, a rename of the current file or
\* a layout-change handled while connected sends exactly one payload through
\* setActivity, and handled while not connected sends none.
C24_EditorEventsTransmitWhenReady ==
    [][(\E op \in EditorEvents : Ran(op)) =>
         IF connected THEN Cardinality(Sends(last')) = 1 ELSE Sends(last') = {}]_vars

\* C25: whenever the client is connected a periodic timer is active, so the
\* refresh goes on.  Stated for the states in which no disconnect() is under
\* way: while one is, the connection is being torn down.
C25_TimerActiveWhileConnected ==
    (connected /\ DiscInFlight = 0) => timers > 0

\* The login calls a handler run has made.
Logins(e) == {c \in e.calls : c[1] = "login"}

\* The sessions a step creates.
Created == {i \in SessIds : sess[i].st = "unused" /\ sess'[i].st # "unused"}

\* C26: nothing logs in but connect(), and one run of connect() logs in at
\* most once, on the session it has just created: the ready handler, the
\* disconnected handler, the tick, the editor events and every continuation
\* create no session and issue no login, so after a failed handshake or a
\* disconnected signal a login follows only from a later call of connect().
C26_LoginOnlyFromConnect ==
    [][last' # last =>
         /\ Cardinality(Logins(last')) <= 1
         /\ Cardinality(Created) <= 1
         /\ Logins(last') = {<<"login", i>> : i \in Created}
         /\ Logins(last') # {} => last'.op = "connect" /\ ~connected]_vars

\* connect() has logged in on a new session after a disconnected signal
\* ended an earlier one.
C26_Witness ==
    /\ last.op = "connect"
    /\ Logins(last) = {<<"login", rpc>>}
    /\ \E i \in SessIds : sess[i].st = "closed"

\* The PresenceManager and its PrivacyManager hold the settings object the
\* plugin holds.
SameSettings ==
    /\ settingsOf.presence = settingsOf.plugin
    /\ settingsOf.privacy = settingsOf.plugin

\* C27: after every settings change the PresenceManager and its
\* PrivacyManager read the settings object the plugin reads, and when the
\* client is connected and enabled as updateSettings() goes on after the
\* save, a payload is sent.
C27_SettingsChangeTakesEffect ==
    [][/\ SameSettings'
       /\ (savingSettings /\ ~savingSettings' /\ connected /\ enabled)
            => Sends(last') # {}]_vars

\* C28: when the ready signal of a session arrives after the handshake of
\* an earlier session has failed, the client becomes Ready as on a first
\* connect: connected, the interval created and running, the ready callback
\* invoked.
C28_ReadyAfterFailedHandshake ==
    [][\A j \in SessIds :
         (/\ sess[j].st = "handshake"
          /\ sess'[j].st = "open"
          /\ \E i \in SessIds : sess[i].st = "failed")
         => /\ connected'
            /\ updateInterval'
            /\ timers' > 0
            /\ <<"onReadyCallback", 0>> \in last'.calls]_vars

\* The first handshake failed, connect() was called again, and the second
\* session has just become ready.
C28_Witness ==
    /\ sess[1].st = "failed"
    /\ sess[2].st = "open"
    /\ rpc = 2
    /\ last.op = "ready"
    /\ connected
    /\ timers = 1

\* The text is empty or made of spaces only.
IsBlank(text) == \A k \in 1..Len(text) : text[k] = " "

\* The file of the call is open and the privacy filter hides it.
FileHidden == call.currentFile # Null /\ MustHide(call.this.settings, call.currentFile.path)

\* C29: in custom-template mode a blank details template leaves the payload
\* without details, with no default text in its place; a details template
\* that is not blank, for a file that is not hidden or for no file, makes
\* details the rendered template.
C29_CustomDetailsTemplate ==
    (CreateActivityReturned /\ call.this.settings.useCustomTemplate) =>
      LET activity == returned[1]
          template == call.this.settings.customDetailsTemplate
          context == [currentFile |-> call.currentFile,
                      vault |-> call.this.vault,
                      isReading |-> call.this.workspace = Workspace("preview")]
      IN  /\ IsBlank(template) => "details" \notin DOMAIN activity
          /\ (~IsBlank(template) /\ ~FileHidden) =>
                /\ "details" \in DOMAIN activity
                /\ activity.details = processTemplate(template, context)

\* Custom-template mode with showFileName on, a file that is open and not
\* hidden, and a details template of one space: the payload has no details.
C29_Witness ==
    /\ CreateActivityReturned
    /\ call.this.settings.useCustomTemplate
    /\ call.this.settings.customDetailsTemplate = <<" ">>
    /\ call.this.settings.showFileName
    /\ call.currentFile # Null
    /\ ~FileHidden
    /\ "details" \notin DOMAIN returned[1]

\* C30: with custom-template mode off, showFileName on and the file not
\* hidden, details is '<type>: <basename>' for an open file and
\* '<type> a note' for none, <type> being 'Reading' exactly when the view is in
\* reading mode and 'Editing' otherwise; with no file open the only other text
\* of the payload is the vault line.
C30_DefaultDetails ==
    (/\ CreateActivityReturned
     /\ ~call.this.settings.useCustomTemplate
     /\ call.this.settings.showFileName
     /\ ~FileHidden) =>
      LET activity == returned[1]
          type == IF call.this.workspace = Workspace("preview")
                    THEN "Reading" ELSE "Editing"
      IN  /\ "details" \in DOMAIN activity
          /\ call.currentFile # Null =>
                activity.details = <<type, ": ">> \o call.currentFile.basename
          /\ call.currentFile = Null =>
                /\ activity.details = <<type, " a note">>
                /\ "state" \in DOMAIN activity =>
                      activity.state = <<"Vault: ">> \o call.this.vault.name

\* Default details for note N shown in reading mode.
C30_Witness ==
    /\ CreateActivityReturned
    /\ ~call.this.settings.useCustomTemplate
    /\ call.this.settings.showFileName
    /\ call.currentFile # Null
    /\ ~FileHidden
    /\ call.this.workspace = Workspace("preview")
    /\ returned[1].details = <<"Reading", ": ", "N">>

\* C31: the payload has no buttons field or one that lists exactly one
\* button, never an empty list; it has the field exactly when
\* enableCustomButton is set and customButtonUrl is not the empty string, and
\* then the button's url is customButtonUrl and its label customButtonLabel,
\* or 'Visit My Website' when that is the empty string.
C31_ButtonsAbsentOrOne ==
    CreateActivityReturned =>
      LET activity == returned[1]
          settings == call.this.settings
      IN  /\ "buttons" \in DOMAIN activity
                <=> (settings.enableCustomButton /\ Len(settings.customButtonUrl) > 0)
          /\ "buttons" \in DOMAIN activity =>
                /\ Len(activity.buttons) = 1
                /\ activity.buttons[1].url = settings.customButtonUrl
                /\ activity.buttons[1].label =
                      IF Len(settings.customButtonLabel) = 0
                        THEN <<"Visit My Website">>
                        ELSE settings.customButtonLabel

\* The button is on with a URL and an empty label: one button with the
\* default label.
C31_Witness ==
    /\ CreateActivityReturned
    /\ call.this.settings.enableCustomButton
    /\ call.this.settings.customButtonUrl = <<"https://example.com">>
    /\ call.this.settings.customButtonLabel = <<>>
    /\ returned[1].buttons =
          << [label |-> <<"Visit My Website">>, url |-> <<"https://example.com">>] >>

\* The other variant of createActivity.
OtherPart(part) == IF part = "part_000" THEN "part_001" ELSE "part_000"

\* C39: the two variants of createActivity build the same payload from the
\* same PresenceManager and the same current file.
C39_VariantsBuildSamePayload ==
    CreateActivityReturned =>
      returned[1] = Payload(OtherPart(call.part), call.this, call.currentFile)

\* C32: layout-change events that arrive while the timeout of an earlier one
\* has not expired lead to one resynthesis: at most one updatePresence()
\* scheduled by layout-change is ever pending.
C32_LayoutChangeDebounced == timeouts <= 1

\* A connect() is in the state Connecting: its session is in the handshake
\* and its login() has not settled.
Connecting == \E i \in SessIds : sess[i].st = "handshake" /\ sess[i].login = "pending"

\* C33: while a handshake is in flight no step creates a session or issues
\* a login.
C33_NoSecondSessionWhileConnecting ==
    [][Connecting => (Created = {} /\ (last' # last => Logins(last') = {}))]_vars

\* The step delivers the 'ready' or the 'disconnected' signal of session i.
Signal(i) ==
    \/ sess[i].st = "handshake" /\ sess'[i].st = "open"
    \/ sess[i].st = "open" /\ sess'[i].st = "closed"

\* C34: a ready or disconnected signal of a session that is not the one the
\* client holds (disconnect() has dropped it, or a later connect() has
\* replaced it) leaves the connection flag and the timer as they are.
C34_SupersededSessionIsIgnored ==
    [][\A i \in SessIds :
         (Signal(i) /\ i # rpc) => UNCHANGED <<connected, updateInterval, timers>>]_vars

\* Some disconnect() has issued clearActivity() and has not returned.
TearingDown == \E c \in Callers : clearing[c] > 0 \/ destroying[c] > 0

\* C35: while a disconnect() is suspended on clearActivity() or destroy(),
\* no handler sends a payload to the transport.
C35_NoPayloadDuringTeardown ==
    [][(TearingDown /\ last' # last) => Sends(last') = {}]_vars

\* C36: whenever isConnected() is true the client holds a transport handle.
C36_ConnectedHoldsHandle == connected => rpc # 0

\* C37: when connect() has just returned true the client is Ready.
C37_TrueMeansReady ==
    (last.op \in {"connect", "connectReturn"} /\ last.ret = "true") => connected

\* C37, amended: connect() returns true at once when the client is Ready,
\* and otherwise when login() of its session resolves; returning, it writes
\* no field, so the client is Ready then only if the signals delivered so far
\* have left it so.
C37_TrueMeansLoginResolved ==
    [][(last' # last /\ last'.op \in {"connect", "connectReturn"} /\ last'.ret = "true") =>
         /\ UNCHANGED client
         /\ last'.op = "connect" => (connected /\ Created = {})
         /\ last'.op = "connectReturn" =>
               \E i \in SessIds : sess[i].login = "pending" /\ sess'[i].login = "resolved"]_vars

\* login() has resolved before the ready signal of its session: connect()
\* has returned true and the client is not Ready.
C37_Witness ==
    /\ last.op = "connectReturn"
    /\ last.ret = "true"
    /\ ~connected
    /\ sess[rpc].st = "handshake"
    /\ sess[rpc].login = "resolved"

\* No connect, disconnect, ready callback or settings update is in progress.
Settled ==
    /\ ConnectsSettled
    /\ DiscInFlight = 0
    /\ ~savingReady
    /\ ~savingSettings

\* C38: whenever no operation is in progress, settings.enabled is true
\* exactly when the client is connected.
C38_EnabledIffConnected == Settled => (enabled <=> connected)

====
